---------------------------- MODULE Spec2Model ----------------------------
(***************************************************************************)
(* Gadget metadata reconciliation (package types): Validate and Populate   *)
(* of a GadgetMetadata document against an eBPF CollectionSpec.            *)
(*                                                                         *)
(* A btf.Type pointer is a reference (an index) into the sequence          *)
(* spec.Types; the index order is the order Types.Iterate() yields.        *)
(***************************************************************************)
EXTENDS Integers, Sequences, FiniteSets, TLC

VARIABLES m, spec, prev, op, perr, verrs, popRuns, typ, out

vars == <<m, spec, prev, op, perr, verrs, popRuns, typ, out>>

---------------------------------------------------------------------------
(* Bounds of the model *)

\* longest Fields list of a Struct of a Document given to Validate
MaxFields == 2
\* longest Fields list a Struct has before Populate extends it
MaxOldFields == 1
\* longest member list of the compiled event structure
MaxMembers == 2
\* longest well-formed (acyclic) typedef chain of the type universe
MaxAliasDepth == 2
\* call frames the goroutine stack holds before the runtime aborts
MaxStackDepth == 6

---------------------------------------------------------------------------
(* Program constants *)

traceMapPrefix == <<"gadget_trace_map_">>
DefaultColumnWidth == 16

\* pkg/columns
MaxCharsInt8 == 4
MaxCharsInt16 == 6
MaxCharsInt32 == 11
MaxCharsInt64 == 20
MaxCharsUint8 == 3
MaxCharsUint16 == 5
MaxCharsUint32 == 10
MaxCharsUint64 == 20
MaxCharsBool == 5
MaxCharsChar == 1

\* pkg/gadgets
MntNsIdTypeName == "gadget_mntns_id"

AlignmenNone == ""
AlignmentLeft == "left"
EllipsisNone == ""
EllipsisEnd == "end"

\* the nil btf.Type
Nil == 0
\* outcome of a call whose recursion exhausted the goroutine stack
StackOverflow == -1

---------------------------------------------------------------------------
(* strings.HasPrefix / strings.TrimPrefix. A variable's name is the       *)
(* sequence of its tokens, <<"gadget_trace_map_", "events">>; Ident is the *)
(* string that what is left of a name behind the prefix spells: "" or its  *)
(* one token.                                                              *)

HasPrefix(s, prefix) ==
    /\ Len(s) >= Len(prefix)
    /\ SubSeq(s, 1, Len(prefix)) = prefix

TrimPrefix(s, prefix) ==
    IF HasPrefix(s, prefix) THEN SubSeq(s, Len(prefix) + 1, Len(s)) ELSE s

Ident(s) == IF Len(s) = 0 THEN "" ELSE s[Len(s)]

---------------------------------------------------------------------------
(* Document model *)

FieldAttributes(width, alignment, ellipsis) ==
    [Width |-> width, MinWidth |-> 0, MaxWidth |-> 0, Alignment |-> alignment,
     Hidden |-> FALSE, Ellipsis |-> ellipsis, Template |-> ""]

Field(name, description, attributes, annotations) ==
    [Name |-> name, Description |-> description, Attributes |-> attributes,
     Annotations |-> annotations]

Struct(fields) == [Fields |-> fields]

Tracer(mapName, structName) == [MapName |-> mapName, StructName |-> structName]

\* a nil Go map reads as the empty map; the Nil flags record that it is nil
GadgetMetadata(name, description, tracers, structs, tracersNil, structsNil) ==
    [Name |-> name, Description |-> description, Tracers |-> tracers,
     Structs |-> structs, TracersNil |-> tracersNil, StructsNil |-> structsNil]

EmptyMap == [k \in {} |-> Nil]

\* Go map assignment mp[k] = v
MapPut(mp, k, v) == [x \in DOMAIN mp \cup {k} |-> IF x = k THEN v ELSE mp[x]]

---------------------------------------------------------------------------
(* Compiled object: btf types and ebpf.MapSpec *)

Signed == "Signed"
Unsigned == "Unsigned"
Bool == "Bool"
Char == "Char"

BtfInt(name, encoding, size) ==
    [kind |-> "Int", Name |-> name, Encoding |-> encoding, Size |-> size]
BtfTypedef(name, type) == [kind |-> "Typedef", Name |-> name, Type |-> type]
BtfStruct(name, members) == [kind |-> "Struct", Name |-> name, Members |-> members]
BtfVar(name) == [kind |-> "Var", Name |-> name]
BtfOther(kind, name) == [kind |-> kind, Name |-> name]
Member(name, type) == [Name |-> name, Type |-> type]

RingBuf == "RingBuf"
PerfEventArray == "PerfEventArray"
Hash == "Hash"

MapSpec(name, type, value) == [Name |-> name, Type |-> type, Value |-> value]
\* the nil *ebpf.MapSpec
NilMapSpec == MapSpec("", "nil", Nil)

\* btf.Type.TypeName(); a Var's name is the identifier its tokens spell
TypeName(types, t) == types[t].Name


---------------------------------------------------------------------------
(* Type resolver and width inference *)

\* getUnderlyingType(tf); depth counts the frames of the recursion, which
\* has no other bound: past the stack limit the runtime aborts the process
RECURSIVE getUnderlyingType(_, _, _)
getUnderlyingType(types, tf, depth) ==
    IF depth >= MaxStackDepth
    THEN StackOverflow
    ELSE LET typedMember == types[tf].Type
         IN  IF types[typedMember].kind = "Typedef"
             THEN getUnderlyingType(types, typedMember, depth + 1)
             ELSE typedMember

\* the switch of getColumnSize on a *btf.Int
IntColumnSize(t) ==
    CASE t.Encoding = Signed /\ t.Size = 1 -> MaxCharsInt8
      [] t.Encoding = Signed /\ t.Size = 2 -> MaxCharsInt16
      [] t.Encoding = Signed /\ t.Size = 4 -> MaxCharsInt32
      [] t.Encoding = Signed /\ t.Size = 8 -> MaxCharsInt64
      [] t.Encoding = Unsigned /\ t.Size = 1 -> MaxCharsUint8
      [] t.Encoding = Unsigned /\ t.Size = 2 -> MaxCharsUint16
      [] t.Encoding = Unsigned /\ t.Size = 4 -> MaxCharsUint32
      [] t.Encoding = Unsigned /\ t.Size = 8 -> MaxCharsUint64
      [] t.Encoding = Bool -> MaxCharsBool
      [] t.Encoding = Char -> MaxCharsChar
      [] OTHER -> DefaultColumnWidth

\* getColumnSize without the case of a typedef
getColumnSizeNoTypedef(types, t) ==
    IF types[t].kind = "Int" THEN IntColumnSize(types[t]) ELSE DefaultColumnWidth

\* getColumnSize(typ): a width, or StackOverflow when the call never returns
RECURSIVE getColumnSize(_, _)
getColumnSize(types, t) ==
    CASE types[t].kind = "Int" -> IntColumnSize(types[t])
      [] types[t].kind = "Typedef" ->
            LET u == getUnderlyingType(types, t, 0)
            IN  IF u = StackOverflow THEN StackOverflow
                ELSE getColumnSize(types, u)
      [] OTHER -> DefaultColumnWidth

---------------------------------------------------------------------------
(* Trace-map locator *)

\* getGadgetIdentByPrefix: the first Var, in iteration order from index i,
\* whose name has the prefix; "" when there is none
RECURSIVE getGadgetIdentByPrefixFrom(_, _, _)
getGadgetIdentByPrefixFrom(types, prefix, i) ==
    IF i > Len(types) THEN ""
    ELSE IF types[i].kind # "Var"
         THEN getGadgetIdentByPrefixFrom(types, prefix, i + 1)
         ELSE IF HasPrefix(types[i].Name, prefix)
              THEN Ident(TrimPrefix(types[i].Name, prefix))
              ELSE getGadgetIdentByPrefixFrom(types, prefix, i + 1)

getGadgetIdentByPrefix(s, prefix) == getGadgetIdentByPrefixFrom(s.Types, prefix, 1)

\* getTracerMapFromeBPF: spec.Maps[mapName], nil for a missing key
getTracerMapFromeBPF(s) ==
    LET mapName == getGadgetIdentByPrefix(s, traceMapPrefix)
    IN  IF mapName \in DOMAIN s.Maps THEN s.Maps[mapName] ELSE NilMapSpec

---------------------------------------------------------------------------
(* Validator *)

Finding(kind, entry, name) == [kind |-> kind, entry |-> entry, name |-> name]

\* validateTraceMap: the first error, or "nil"
validateTraceMap(types, traceMap) ==
    IF traceMap.Type # RingBuf /\ traceMap.Type # PerfEventArray
    THEN "WrongMapType"
    ELSE IF traceMap.Value = Nil
         THEN "NoBTFValue"
         ELSE IF types[traceMap.Value].kind # "Struct"
              THEN "ValueNotStruct"
              ELSE "nil"

\* the body of the loop of validateTracers for the entry `name`
validateTracer(doc, s, name) ==
    LET tracer == doc.Tracers[name]
        e1 == IF tracer.MapName = ""
              THEN {Finding("MissingMapName", name, "")} ELSE {}
        e2 == IF tracer.StructName = ""
              THEN {Finding("MissingStructName", name, "")} ELSE {}
        e3 == IF tracer.StructName \notin DOMAIN doc.Structs
              THEN {Finding("UnknownStruct", name, tracer.StructName)} ELSE {}
    IN  IF tracer.MapName \notin DOMAIN s.Maps
        THEN [skip |-> TRUE,
              errs |-> e1 \cup e2 \cup e3
                       \cup {Finding("MapNotFound", name, tracer.MapName)}]
        ELSE LET err == validateTraceMap(s.Types, s.Maps[tracer.MapName])
             IN  [skip |-> FALSE,
                  errs |-> e1 \cup e2 \cup e3 \cup
                           (IF err # "nil"
                            THEN {Finding(err, name, tracer.MapName)} ELSE {})]

\* the range loop of validateTracers returning at a tracer whose map is
\* missing, where the code continues
RECURSIVE validateTracersLoopReturn(_, _, _, _)
validateTracersLoopReturn(doc, s, names, result) ==
    IF names = {} THEN result
    ELSE LET name == CHOOSE k \in names : TRUE
             r == validateTracer(doc, s, name)
         IN  IF r.skip THEN result \cup r.errs
             ELSE validateTracersLoopReturn(doc, s, names \ {name},
                                            result \cup r.errs)

\* the range loop of validateTracers over the entries `names` still to visit,
\* in the order a Go map yields them (any); a `continue` goes on with the
\* next entry like the end of the body does
RECURSIVE validateTracersLoop(_, _, _, _)
validateTracersLoop(doc, s, names, result) ==
    IF names = {} THEN result
    ELSE LET name == CHOOSE k \in names : TRUE
             r == validateTracer(doc, s, name)
         IN  validateTracersLoop(doc, s, names \ {name}, result \cup r.errs)

validateTracers(doc, s) ==
    validateTracersLoop(doc, s, DOMAIN doc.Tracers,
        IF Cardinality(DOMAIN doc.Tracers) > 1
        THEN {Finding("OnlyOneTracer", "", "")} ELSE {})

\* spec.Types.TypeByName(name, &btfStruct): the one structure of that name,
\* or Nil (not found, or several candidates); unnamed types have no name
\* to be found by
TypeByName(types, name) ==
    LET found == {i \in DOMAIN types :
                     types[i].kind = "Struct" /\ types[i].Name = name}
    IN  IF name # "" /\ Cardinality(found) = 1
        THEN CHOOSE i \in found : TRUE
        ELSE Nil

\* the body of the loop of validateStructs without the check of the fields
validateStructNoFields(doc, s, name) ==
    IF TypeByName(s.Types, name) = Nil
    THEN [skip |-> TRUE, errs |-> {Finding("StructNotFound", name, name)}]
    ELSE [skip |-> FALSE, errs |-> {}]

\* the body of the loop of validateStructs for the entry `name`
validateStruct(doc, s, name) ==
    LET mapStruct == doc.Structs[name]
        btfStruct == TypeByName(s.Types, name)
    IN  IF btfStruct = Nil
        THEN [skip |-> TRUE, errs |-> {Finding("StructNotFound", name, name)}]
        ELSE LET mapStructFields ==
                     {mapStruct.Fields[i].Name : i \in DOMAIN mapStruct.Fields}
                 members == s.Types[btfStruct].Members
                 btfStructFields == {members[i].Name : i \in DOMAIN members}
             IN  [skip |-> FALSE,
                  errs |-> {Finding("FieldNotFound", name, fieldName) :
                               fieldName \in mapStructFields \ btfStructFields}]

RECURSIVE validateStructsLoop(_, _, _, _)
validateStructsLoop(doc, s, names, result) ==
    IF names = {} THEN result
    ELSE LET name == CHOOSE k \in names : TRUE
             r == validateStruct(doc, s, name)
         IN  validateStructsLoop(doc, s, names \ {name}, result \cup r.errs)

validateStructs(doc, s) == validateStructsLoop(doc, s, DOMAIN doc.Structs, {})

\* GadgetMetadata.Validate: the findings the returned multierror holds
\* ({} is the nil error)
ValidateResult(doc, s) ==
    (IF doc.Name = "" THEN {Finding("NameRequired", "", "")} ELSE {})
        \cup validateTracers(doc, s)
        \cup validateStructs(doc, s)

---------------------------------------------------------------------------
(* Populator *)

\* the Field populateStruct synthesizes for a member
NewField(types, member) ==
    Field(member.Name, "TODO: Fill field description",
          FieldAttributes(getColumnSize(types, member.Type),
                          AlignmentLeft, EllipsisEnd),
          EmptyMap)

\* the loop of populateStruct with the timestamp skip left out
RECURSIVE populateFieldsKeepTimestamp(_, _, _, _, _)
populateFieldsKeepTimestamp(types, members, existingFields, fields, i) ==
    IF i > Len(members) THEN fields
    ELSE LET member == members[i]
         IN  IF TypeName(types, member.Type) = MntNsIdTypeName
                \/ member.Name \in existingFields
             THEN populateFieldsKeepTimestamp(types, members, existingFields,
                                              fields, i + 1)
             ELSE populateFieldsKeepTimestamp(types, members, existingFields,
                     Append(fields, NewField(types, member)), i + 1)

\* the loop of populateStruct putting each new Field first
RECURSIVE populateFieldsPrepend(_, _, _, _, _)
populateFieldsPrepend(types, members, existingFields, fields, i) ==
    IF i > Len(members) THEN fields
    ELSE LET member == members[i]
         IN  IF member.Name = "timestamp"
                \/ TypeName(types, member.Type) = MntNsIdTypeName
                \/ member.Name \in existingFields
             THEN populateFieldsPrepend(types, members, existingFields,
                                        fields, i + 1)
             ELSE populateFieldsPrepend(types, members, existingFields,
                     <<NewField(types, member)>> \o fields, i + 1)

\* the loop of populateStruct over the members from index i on; the set
\* existingFields is built once, before the loop
RECURSIVE populateFields(_, _, _, _, _)
populateFields(types, members, existingFields, fields, i) ==
    IF i > Len(members) THEN fields
    ELSE LET member == members[i]
         IN  IF member.Name = "timestamp"
             THEN populateFields(types, members, existingFields, fields, i + 1)
             ELSE IF TypeName(types, member.Type) = MntNsIdTypeName
             THEN populateFields(types, members, existingFields, fields, i + 1)
             ELSE IF member.Name \in existingFields
             THEN populateFields(types, members, existingFields, fields, i + 1)
             ELSE populateFields(types, members, existingFields,
                     Append(fields, NewField(types, member)), i + 1)

\* populateStruct that takes no field as already declared
populateStructNoExisting(doc, types, btfStruct) ==
    LET name == types[btfStruct].Name
        gadgetStruct == IF name \in DOMAIN doc.Structs
                        THEN doc.Structs[name] ELSE Struct(<<>>)
        fields == populateFields(types, types[btfStruct].Members,
                                 {}, gadgetStruct.Fields, 1)
    IN  [doc EXCEPT !.StructsNil = FALSE,
                    !.Structs = MapPut(doc.Structs, name, Struct(fields))]

\* populateStruct(btfStruct): the Document after the call
populateStruct(doc, types, btfStruct) ==
    LET name == types[btfStruct].Name
        gadgetStruct == IF name \in DOMAIN doc.Structs
                        THEN doc.Structs[name] ELSE Struct(<<>>)
        existingFields ==
            {gadgetStruct.Fields[i].Name : i \in DOMAIN gadgetStruct.Fields}
        fields == populateFields(types, types[btfStruct].Members,
                                 existingFields, gadgetStruct.Fields, 1)
    IN  [doc EXCEPT !.StructsNil = FALSE,
                    !.Structs = MapPut(doc.Structs, name, Struct(fields))]

\* populateTracers: the Document after the call and the error ("nil": none)
populateTracers(doc, s) ==
    LET traceMap == getTracerMapFromeBPF(s)
    IN  IF traceMap = NilMapSpec
        THEN [doc |-> doc, err |-> "nil"]
        ELSE IF validateTraceMap(s.Types, traceMap) # "nil"
        THEN [doc |-> doc, err |-> validateTraceMap(s.Types, traceMap)]
        ELSE LET traceMapStruct == traceMap.Value
                 found == \E t \in DOMAIN doc.Tracers :
                              doc.Tracers[t].MapName = traceMap.Name
                 withTracer ==
                     IF ~found
                     THEN [doc EXCEPT !.Tracers =
                              MapPut(doc.Tracers, traceMap.Name,
                                     Tracer(traceMap.Name,
                                            s.Types[traceMapStruct].Name))]
                     ELSE doc
             IN  [doc |-> populateStruct(withTracer, s.Types, traceMapStruct),
                  err |-> "nil"]

\* GadgetMetadata.Populate: the Document after the call and the error
PopulateResult(doc, s) ==
    LET d1 == IF doc.Name = ""
              THEN [doc EXCEPT !.Name = "TODO: Fill the gadget name"] ELSE doc
        d2 == IF d1.Description = ""
              THEN [d1 EXCEPT !.Description = "TODO: Fill the gadget description"]
              ELSE d1
        d3 == [d2 EXCEPT !.TracersNil = FALSE, !.StructsNil = FALSE]
    IN  populateTracers(d3, s)

---------------------------------------------------------------------------
(* Inputs: compiled objects *)

SeqsUpTo(S, n) == UNION {[1..k -> S] : k \in 0..n}

\* the named entries of EventTypes, in their order; RefOf is the reference
\* (the pointer) to the entry of that name
EventTypeNames ==
    <<"unsigned int", "unsigned long long", "gadget_mntns_id", "ns_alias",
      "event_t", "event_alias", "other_t", "">>
RefOf(name) == CHOOSE i \in DOMAIN EventTypeNames : EventTypeNames[i] = name
U32 == RefOf("unsigned int")
U64 == RefOf("unsigned long long")
MntNsId == RefOf("gadget_mntns_id")
NsAlias == RefOf("ns_alias")
EventT == RefOf("event_t")
EventAlias == RefOf("event_alias")
OtherT == RefOf("other_t")
AnonT == RefOf("")

EventsMarker == <<"gadget_trace_map_", "events">>
OtherMarker == <<"gadget_trace_map_", "other">>

\* the type table of a gadget object, well-formed (its alias chains end):
\* the event structure with the given members, and the given marker
\* variables last, in the given order. Malformed chains are in TypeUniverse.
EventTypes(members, markers) ==
    << BtfInt("unsigned int", Unsigned, 4),
       BtfInt("unsigned long long", Unsigned, 8),
       BtfTypedef(MntNsIdTypeName, U64),
       BtfTypedef("ns_alias", MntNsId),
       BtfStruct("event_t", members),
       BtfTypedef("event_alias", EventT),
       BtfStruct("other_t", <<Member("uid", U32)>>),
       BtfStruct("", <<Member("pid", U32)>>),
       BtfVar(<<"LICENSE">>) >>
    \o [i \in 1..Len(markers) |-> BtfVar(markers[i])]

MemberPool ==
    {Member("pid", U32), Member("timestamp", U64),
     Member("mntns_id", MntNsId), Member("ns", NsAlias)}

\* a member list that repeats a name: two unnamed members (anonymous
\* structures embedded in the event structure)
UnnamedMembers == <<Member("", AnonT), Member("", AnonT)>>

\* the member lists of the event structure
MemberLists == SeqsUpTo(MemberPool, MaxMembers) \cup {UnnamedMembers}

MarkerOrders ==
    {<<>>, <<EventsMarker>>, <<EventsMarker, OtherMarker>>,
     <<OtherMarker, EventsMarker>>}

OtherMap == MapSpec("other", RingBuf, OtherT)

\* the map table: the map "other", and the map "events" unless absent
Maps(events) ==
    IF events = NilMapSpec
    THEN [k \in {"other"} |-> OtherMap]
    ELSE [k \in {"other", "events"} |-> IF k = "other" THEN OtherMap ELSE events]

CollectionSpec(types, maps) == [Types |-> types, Maps |-> maps]

\* objects given to Populate
PopulateEventsMaps ==
    {NilMapSpec} \cup {MapSpec("events", t, EventT) : t \in {RingBuf, PerfEventArray, Hash}}
          \cup {MapSpec("events", RingBuf, v) : v \in {Nil, AnonT}}

\* objects given to Validate
ValidateEventsMaps ==
    {NilMapSpec} \cup {MapSpec("events", t, v) :
                   t \in {RingBuf, PerfEventArray, Hash},
                   v \in {Nil, EventT, EventAlias, U32}}

---------------------------------------------------------------------------
(* Inputs: documents *)

\* a field as an author wrote it
UserField(name) ==
    Field(name, "written by hand",
          [FieldAttributes(7, AlignmenNone, EllipsisNone) EXCEPT !.Hidden = TRUE],
          [k \in {"color"} |-> "red"])

MapsOver(keys, Values(_)) ==
    UNION {
        {f \in [K -> UNION {Values(k) : k \in K}] : \A k \in K : f[k] \in Values(k)}
        : K \in SUBSET keys}

PopulateTracerValues(k) ==
    IF k = "events"
    THEN {Tracer("events", "event_t"), Tracer("other", "event_t")}
    ELSE {Tracer("events", "event_t")}

PopulateStructValues(k) ==
    {Struct(fs) : fs \in SeqsUpTo({UserField("pid"), UserField("extra")}, MaxOldFields)}

\* the zero value (nil maps), and the documents an author wrote
PopulateDocuments ==
    {GadgetMetadata("", "", EmptyMap, EmptyMap, TRUE, TRUE)} \cup
    {GadgetMetadata("gadget", "a gadget", t, s, FALSE, FALSE) :
        t \in {f \in MapsOver({"events", "mine"}, PopulateTracerValues) :
                  Cardinality(DOMAIN f) <= 1},
        s \in MapsOver({"event_t"}, PopulateStructValues)}

ValidateTracerValues(k) ==
    IF k = "events"
    THEN {Tracer(mn, sn) : mn \in {"", "events", "nomap"}, sn \in {"", "event_t"}}
    ELSE {Tracer(mn, "other_t") : mn \in {"events", "nomap"}}

ValidateStructValues(k) ==
    CASE k = "event_t" ->
            {Struct(fs) :
                fs \in SeqsUpTo({UserField("pid"), UserField("bogus")}, MaxFields)}
      [] k = "other_t" -> {Struct(<<UserField("uid")>>)}
      [] OTHER -> {Struct(<<UserField("pid")>>)}

ValidateDocuments ==
    {GadgetMetadata(n, "a gadget", t, s, FALSE, FALSE) :
        n \in {"", "gadget"},
        t \in MapsOver({"events", "t2"}, ValidateTracerValues),
        s \in MapsOver({"event_t", "other_t", "ghost"}, ValidateStructValues)}

---------------------------------------------------------------------------
(* State machine: a Document, a compiled object, and the calls on them *)

NoCall == [call |-> "none", result |-> Nil, err |-> "nil"]

InitCalls ==
    /\ prev = m
    /\ op = "init"
    /\ perr = "nil"
    /\ verrs = {}
    /\ popRuns = 0
    /\ typ = Nil
    /\ out = NoCall

Init ==
    /\ m \in PopulateDocuments
    /\ \E members \in MemberLists,
          markers \in MarkerOrders, events \in PopulateEventsMaps :
            spec = CollectionSpec(EventTypes(members, markers), Maps(events))
    /\ InitCalls

InitValidate ==
    /\ m \in ValidateDocuments
    /\ \E events \in ValidateEventsMaps :
            spec = CollectionSpec(
                EventTypes(<<Member("pid", U32), Member("timestamp", U64)>>,
                           <<EventsMarker>>),
                Maps(events))
    /\ InitCalls

\* m.Populate(spec); prev is the Document the last call was given, perr the
\* error of the last Populate, verrs the findings of the last Validate,
\* popRuns the number of Populate calls that returned nil (counted up to 2)
Populate ==
    LET r == PopulateResult(m, spec)
    IN  /\ m' = r.doc
        /\ prev' = m
        /\ op' = "Populate"
        /\ perr' = r.err
        /\ popRuns' = IF r.err = "nil" /\ popRuns < 2 THEN popRuns + 1 ELSE popRuns
        /\ verrs' = {}
        /\ UNCHANGED <<spec, typ, out>>

\* m.Validate(spec); it reads the Document and assigns nothing
Validate ==
    /\ verrs' = ValidateResult(m, spec)
    /\ prev' = m
    /\ op' = "Validate"
    /\ UNCHANGED <<m, spec, perr, popRuns, typ, out>>

Next == Populate \/ Validate

Spec == Init /\ [][Next]_vars

SpecValidate == InitValidate /\ [][Next]_vars

---------------------------------------------------------------------------
(* The type resolver and the width table on their own *)

Encodings == <<Signed, Unsigned, Bool, Char>>
Sizes == <<1, 2, 4, 8, 16>>
OtherKinds == <<"Struct", "Array", "Pointer", "Float", "Void">>

\* the concrete (non-alias) types: every integer encoding and size, and a
\* type of every other kind
ConcreteTypes ==
    [i \in 1..(Len(Encodings) * Len(Sizes)) |->
        BtfInt("int", Encodings[((i - 1) \div Len(Sizes)) + 1],
               Sizes[((i - 1) % Len(Sizes)) + 1])]
    \o [i \in 1..Len(OtherKinds) |-> BtfOther(OtherKinds[i], "t")]

NumConcrete == Len(ConcreteTypes)

\* typedef chains of every length up to MaxAliasDepth over every concrete
\* type: the typedef at NumConcrete * k + i aliases the entry NumConcrete
\* below it
AliasTypes ==
    [i \in 1..(NumConcrete * MaxAliasDepth) |-> BtfTypedef("alias", i)]

NumAcyclic == NumConcrete * (MaxAliasDepth + 1)

\* malformed chains: a typedef of itself, two typedefs of each other, and
\* a typedef leading into them
CyclicTypes ==
    << BtfTypedef("self", NumAcyclic + 1),
       BtfTypedef("ping", NumAcyclic + 3),
       BtfTypedef("pong", NumAcyclic + 2),
       BtfTypedef("lead", NumAcyclic + 2) >>

TypeUniverse == ConcreteTypes \o AliasTypes \o CyclicTypes

InitTypes ==
    /\ m = GadgetMetadata("", "", EmptyMap, EmptyMap, TRUE, TRUE)
    /\ spec = CollectionSpec(TypeUniverse, EmptyMap)
    /\ prev = m
    /\ op = "init"
    /\ perr = "nil"
    /\ verrs = {}
    /\ popRuns = 0
    /\ typ \in DOMAIN TypeUniverse
    /\ out = NoCall

\* getUnderlyingType(typ) for a *btf.Typedef; the error it returns is
\* always nil
CallGetUnderlyingType ==
    /\ spec.Types[typ].kind = "Typedef"
    /\ out' = [call |-> "getUnderlyingType",
               result |-> getUnderlyingType(spec.Types, typ, 0),
               err |-> "nil"]
    /\ UNCHANGED <<m, spec, prev, op, perr, verrs, popRuns, typ>>

\* getColumnSize(typ)
CallGetColumnSize ==
    /\ out' = [call |-> "getColumnSize",
               result |-> getColumnSize(spec.Types, typ),
               err |-> "nil"]
    /\ UNCHANGED <<m, spec, prev, op, perr, verrs, popRuns, typ>>

NextTypes == CallGetUnderlyingType \/ CallGetColumnSize

SpecTypes == InitTypes /\ [][NextTypes]_vars

---------------------------------------------------------------------------
(* Properties *)

Range(f) == {f[i] : i \in DOMAIN f}
FieldsOf(doc, name) ==
    IF name \in DOMAIN doc.Structs THEN doc.Structs[name].Fields ELSE <<>>
FieldNames(fields) == {fields[i].Name : i \in DOMAIN fields}
Markers(types) ==
    {i \in DOMAIN types : types[i].kind = "Var" /\ HasPrefix(types[i].Name, traceMapPrefix)}

\* C1: Populate is idempotent: when Populate has succeeded before on the
\* same compiled object, a further successful Populate leaves the Document
\* equal (Name, Description, Tracers, Structs, Fields in order) to the one
\* it was given, also for an object with more than one trace-map marker.
C1_PopulateIdempotent ==
    (op = "Populate" /\ perr = "nil" /\ popRuns = 2) => m = prev

\* a second Populate of an object with two markers that has synthesized a
\* tracer and fields
C1_Witness ==
    /\ op = "Populate" /\ perr = "nil" /\ popRuns = 2
    /\ Cardinality(Markers(spec.Types)) > 1
    /\ \E t \in DOMAIN m.Tracers, st \in DOMAIN m.Structs :
          /\ m.Tracers[t].StructName = st
          /\ \E i \in DOMAIN m.Structs[st].Fields :
                m.Structs[st].Fields[i].Description = "TODO: Fill field description"

\* C2: Populate is monotonically additive: every Tracer entry (key, MapName,
\* StructName) and every Field (Name, Description, Attributes, Annotations)
\* of the Document given to Populate is present and unchanged after it,
\* including a Tracer whose key is the located map's name and whose
\* MapName is another.
C2_MonotonicAdditive ==
    op = "Populate" =>
        /\ \A k \in DOMAIN prev.Tracers :
              k \in DOMAIN m.Tracers /\ m.Tracers[k] = prev.Tracers[k]
        /\ \A st \in DOMAIN prev.Structs :
              /\ st \in DOMAIN m.Structs
              /\ Range(prev.Structs[st].Fields) \subseteq Range(m.Structs[st].Fields)


\* the structure Populate located: the value type of the marked map
Located == getTracerMapFromeBPF(spec)
LocatedStruct == spec.Types[Located.Value]
\* the Fields the last Populate appended to the located structure's Struct
Appended ==
    LET old == FieldsOf(prev, LocatedStruct.Name)
        cur == FieldsOf(m, LocatedStruct.Name)
    IN  SubSeq(cur, Len(old) + 1, Len(cur))

\* the names of the types on the alias chain that starts at t
RECURSIVE AliasChainNames(_, _)
AliasChainNames(types, t) ==
    {types[t].Name} \cup
        (IF types[t].kind = "Typedef" THEN AliasChainNames(types, types[t].Type)
         ELSE {})

\* C7 as stated: Populate appends no Field for a member named "timestamp"
\* and none for a member whose type reaches the namespace-id marker type
\* by following its alias chain; every other member of the located
\* structure that is not declared by name gets a Field.
C7_SkipResolvedMarker ==
    (op = "Populate" /\ perr = "nil" /\ Located # NilMapSpec) =>
        FieldNames(Appended) =
            {mb.Name : mb \in
                {x \in Range(LocatedStruct.Members) :
                    /\ x.Name # "timestamp"
                    /\ MntNsIdTypeName \notin AliasChainNames(spec.Types, x.Type)
                    /\ x.Name \notin FieldNames(FieldsOf(prev, LocatedStruct.Name))}}

\* C7: Populate appends no Field for a member named "timestamp" and none
\* for a member whose own type (the alias chain not followed) has the
\* namespace-id marker's name; every other member of the located structure
\* that is not declared by name gets a Field.
C7_SkipRules ==
    (op = "Populate" /\ perr = "nil" /\ Located # NilMapSpec) =>
        FieldNames(Appended) =
            {mb.Name : mb \in
                {x \in Range(LocatedStruct.Members) :
                    /\ x.Name # "timestamp"
                    /\ spec.Types[x.Type].Name # MntNsIdTypeName
                    /\ x.Name \notin FieldNames(FieldsOf(prev, LocatedStruct.Name))}}

\* a first Populate of a structure with a timestamp member and a member of
\* the marker type: neither got a Field
C7_Witness ==
    /\ op = "Populate" /\ perr = "nil" /\ popRuns = 1 /\ Located # NilMapSpec
    /\ LocatedStruct.Members =
          <<Member("timestamp", U64), Member("mntns_id", MntNsId)>>
    /\ Appended = <<>>
    /\ LocatedStruct.Name \in DOMAIN m.Structs

RECURSIVE IsSubseq(_, _)
IsSubseq(a, b) ==
    IF a = <<>> THEN TRUE
    ELSE IF b = <<>> THEN FALSE
    ELSE IF Head(a) = Head(b) THEN IsSubseq(Tail(a), Tail(b))
    ELSE IsSubseq(a, Tail(b))

\* C8: after a successful Populate the Fields of every Struct are the
\* Fields it had before, in their order, followed by the new ones; the new
\* ones belong to the located structure and come in its member order.
C8_FieldOrderPreserved ==
    (op = "Populate" /\ perr = "nil") =>
        \A st \in DOMAIN m.Structs :
            LET old == FieldsOf(prev, st)
                cur == m.Structs[st].Fields
                new == SubSeq(cur, Len(old) + 1, Len(cur))
            IN  /\ Len(cur) >= Len(old)
                /\ SubSeq(cur, 1, Len(old)) = old
                /\ new # <<>> =>
                      /\ Located # NilMapSpec
                      /\ st = LocatedStruct.Name
                      /\ IsSubseq([i \in DOMAIN new |-> new[i].Name],
                                  [i \in DOMAIN LocatedStruct.Members |->
                                      LocatedStruct.Members[i].Name])

\* a Populate that appended two Fields, in member order, behind a declared one
C8_Witness ==
    /\ op = "Populate" /\ perr = "nil" /\ Located # NilMapSpec
    /\ FieldsOf(prev, LocatedStruct.Name) = <<UserField("extra")>>
    /\ LocatedStruct.Members = <<Member("ns", NsAlias), Member("pid", U32)>>
    /\ [i \in DOMAIN m.Structs[LocatedStruct.Name].Fields |->
           m.Structs[LocatedStruct.Name].Fields[i].Name] = <<"extra", "ns", "pid">>


---------------------------------------------------------------------------
(* Properties of Validate *)

\* the kind of the type the alias chain from t ends in
RECURSIVE ResolvedKind(_, _)
ResolvedKind(types, t) ==
    IF types[t].kind = "Typedef" THEN ResolvedKind(types, types[t].Type)
    ELSE types[t].kind

MapKnown(k) == m.Tracers[k].MapName \in DOMAIN spec.Maps
MapOf(k) == spec.Maps[m.Tracers[k].MapName]
\* the structures of the type table that have the name st
StructsNamed(st) ==
    {i \in DOMAIN spec.Types : spec.Types[i].kind = "Struct" /\ spec.Types[i].Name = st}
MemberNames(i) == {spec.Types[i].Members[j].Name : j \in DOMAIN spec.Types[i].Members}

\* the violations of the Document against the compiled object, one by one
Violations ==
    {Finding("NameRequired", "", "") : x \in {1} \cap (IF m.Name = "" THEN {1} ELSE {})}
    \cup {Finding("OnlyOneTracer", "", "") :
             x \in {1} \cap (IF Cardinality(DOMAIN m.Tracers) > 1 THEN {1} ELSE {})}
    \cup {Finding("MissingMapName", k, "") :
             k \in {x \in DOMAIN m.Tracers : m.Tracers[x].MapName = ""}}
    \cup {Finding("MissingStructName", k, "") :
             k \in {x \in DOMAIN m.Tracers : m.Tracers[x].StructName = ""}}
    \cup {Finding("UnknownStruct", k, m.Tracers[k].StructName) :
             k \in {x \in DOMAIN m.Tracers :
                       m.Tracers[x].StructName \notin DOMAIN m.Structs}}
    \cup {Finding("MapNotFound", k, m.Tracers[k].MapName) :
             k \in {x \in DOMAIN m.Tracers : ~MapKnown(x)}}
    \cup {Finding("WrongMapType", k, m.Tracers[k].MapName) :
             k \in {x \in DOMAIN m.Tracers :
                       MapKnown(x) /\ MapOf(x).Type \notin {RingBuf, PerfEventArray}}}
    \cup {Finding("NoBTFValue", k, m.Tracers[k].MapName) :
             k \in {x \in DOMAIN m.Tracers : MapKnown(x) /\ MapOf(x).Value = Nil}}
    \cup {Finding("ValueNotStruct", k, m.Tracers[k].MapName) :
             k \in {x \in DOMAIN m.Tracers :
                       /\ MapKnown(x) /\ MapOf(x).Value # Nil
                       /\ ResolvedKind(spec.Types, MapOf(x).Value) # "Struct"}}
    \cup {Finding("StructNotFound", st, st) :
             st \in {x \in DOMAIN m.Structs : StructsNamed(x) = {}}}
    \cup UNION {{Finding("FieldNotFound", st, f) :
                    f \in {x \in FieldNames(m.Structs[st].Fields) :
                              \E i \in StructsNamed(st) : x \notin MemberNames(i)}}
                : st \in DOMAIN m.Structs}

\* C3: Validate reports aggregately: every violation of the Document (empty
\* Name, more than one tracer, empty MapName or StructName, unknown struct
\* reference, unknown map, wrong map kind, missing value type, non-structure
\* value type, unknown struct in the type table, unknown field) is in the
\* result of Validate.
C3_AggregateComplete ==
    op = "Validate" => Violations \subseteq verrs

\* C4 as stated: a nil result of Validate means Name is non-empty, there is
\* at most one Tracer, every Tracer.StructName is a key of Structs, every
\* Field name of a Struct bound to a Tracer is a member name of the
\* structure that is the value type of that Tracer's map, and no two
\* Fields of a Struct share a Name.
C4_NilMeansConsistent ==
    (op = "Validate" /\ verrs = {}) =>
        /\ m.Name # ""
        /\ Cardinality(DOMAIN m.Tracers) <= 1
        /\ \A k \in DOMAIN m.Tracers :
              /\ m.Tracers[k].StructName \in DOMAIN m.Structs
              /\ MapKnown(k) /\ MapOf(k).Value # Nil
              /\ spec.Types[MapOf(k).Value].kind = "Struct"
              /\ FieldNames(m.Structs[m.Tracers[k].StructName].Fields)
                    \subseteq MemberNames(MapOf(k).Value)
        /\ \A st \in DOMAIN m.Structs :
              \A i, j \in DOMAIN m.Structs[st].Fields :
                  m.Structs[st].Fields[i].Name = m.Structs[st].Fields[j].Name => i = j

\* C4: a nil result of Validate means Name is non-empty, there is at most
\* one Tracer, every Tracer.StructName is a key of Structs, and every Field
\* name of every Struct is a member name of the one compiled structure that
\* has the Struct's name.
C4_NilMeansChecked ==
    (op = "Validate" /\ verrs = {}) =>
        /\ m.Name # ""
        /\ Cardinality(DOMAIN m.Tracers) <= 1
        /\ \A k \in DOMAIN m.Tracers :
              m.Tracers[k].StructName \in DOMAIN m.Structs
        /\ \A st \in DOMAIN m.Structs :
              /\ Cardinality(StructsNamed(st)) = 1
              /\ \A i \in StructsNamed(st) :
                    FieldNames(m.Structs[st].Fields) \subseteq MemberNames(i)

\* Validate returned nil for a Document with a Tracer and a declared Field
C4_Witness ==
    /\ op = "Validate" /\ verrs = {}
    /\ DOMAIN m.Tracers # {}
    /\ \E st \in DOMAIN m.Structs : m.Structs[st].Fields # <<>>

ValueKinds == {"NoBTFValue", "ValueNotStruct"}

\* C5: Validate reports a value-type error for a tracer whose map has an
\* accepted kind only when the value type is absent or resolves, through
\* its alias chain, to a non-structure kind; a value type that is an alias
\* of a structure is accepted.
C5_AliasValueAccepted ==
    op = "Validate" =>
        \A k \in DOMAIN m.Tracers :
            (/\ MapKnown(k)
             /\ MapOf(k).Type \in {RingBuf, PerfEventArray}
             /\ \E e \in verrs : e.entry = k /\ e.kind \in ValueKinds)
            => \/ MapOf(k).Value = Nil
               \/ ResolvedKind(spec.Types, MapOf(k).Value) # "Struct"


TracerKinds ==
    {"MissingMapName", "MissingStructName", "UnknownStruct", "MapNotFound",
     "WrongMapType", "NoBTFValue", "ValueNotStruct"}
MapKinds == {"WrongMapType", "NoBTFValue", "ValueNotStruct"}
StructKinds == {"StructNotFound", "FieldNotFound"}

Restrict(f, keys) == [k \in DOMAIN f \cap keys |-> f[k]]
\* the findings of kinds `kinds` that Validate attributes to `entry`
FindingsOf(errs, entry, kinds) == {e \in errs : e.entry = entry /\ e.kind \in kinds}

\* C10: Validate skips only the deeper checks of the entry whose reference
\* is missing: a Tracer with an unknown map gets the unknown-map error and
\* no map-kind or value-type finding, a Struct unknown to the type table
\* gets the lookup error and no field finding, and every other Tracer and
\* Struct gets, in the same result, the findings it gets when it is the
\* only entry of the Document.
C10_SkipOnlyThatEntry ==
    op = "Validate" =>
        /\ \A k \in DOMAIN m.Tracers :
              IF ~MapKnown(k)
              THEN /\ Finding("MapNotFound", k, m.Tracers[k].MapName) \in verrs
                   /\ FindingsOf(verrs, k, MapKinds) = {}
              ELSE FindingsOf(verrs, k, TracerKinds) =
                      FindingsOf(ValidateResult([m EXCEPT !.Tracers = Restrict(@, {k})],
                                                spec),
                                 k, TracerKinds)
        /\ \A st \in DOMAIN m.Structs :
              IF StructsNamed(st) = {}
              THEN /\ Finding("StructNotFound", st, st) \in verrs
                   /\ FindingsOf(verrs, st, {"FieldNotFound"}) = {}
              ELSE FindingsOf(verrs, st, StructKinds) =
                      FindingsOf(ValidateResult([m EXCEPT !.Tracers = EmptyMap,
                                                          !.Structs = Restrict(@, {st})],
                                                spec),
                                 st, StructKinds)

\* a Validate of two Tracers and two Structs: one Tracer's map and one
\* Struct's structure are missing, the other Tracer's map has a wrong kind
\* and the other Struct an unknown field, and both are reported
C10_Witness ==
    /\ op = "Validate"
    /\ \E k1, k2 \in DOMAIN m.Tracers :
          /\ ~MapKnown(k1)
          /\ MapKnown(k2) /\ Finding("WrongMapType", k2, m.Tracers[k2].MapName) \in verrs
    /\ \E s1, s2 \in DOMAIN m.Structs :
          /\ Finding("StructNotFound", s1, s1) \in verrs
          /\ \E e \in verrs : e.kind = "FieldNotFound" /\ e.entry = s2

---------------------------------------------------------------------------
(* Properties of the type resolver and the width table *)

\* C6: alias resolution always ends: getUnderlyingType returns a non-alias
\* entry, or, for a cyclic or too long chain, a MalformedTypeChain error.
C6_ResolutionEnds ==
    out.call = "getUnderlyingType" =>
        \/ out.err = "MalformedTypeChain"
        \/ /\ out.result \in DOMAIN spec.Types
           /\ spec.Types[out.result].kind # "Typedef"

\* the concrete type under the well-formed entry t of the type universe
ConcreteOf(t) == ConcreteTypes[((t - 1) % NumConcrete) + 1]

\* the width the table gives a concrete type
TableWidth(t) ==
    LET widths == [e \in {Signed, Unsigned} |->
                     IF e = Signed
                     THEN <<MaxCharsInt8, MaxCharsInt16, 0, MaxCharsInt32,
                            0, 0, 0, MaxCharsInt64>>
                     ELSE <<MaxCharsUint8, MaxCharsUint16, 0, MaxCharsUint32,
                            0, 0, 0, MaxCharsUint64>>]
    IN  IF t.kind # "Int" THEN DefaultColumnWidth
        ELSE IF t.Encoding = Bool THEN MaxCharsBool
        ELSE IF t.Encoding = Char THEN MaxCharsChar
        ELSE IF t.Size \in {1, 2, 4, 8} THEN widths[t.Encoding][t.Size]
        ELSE DefaultColumnWidth

---------------------------------------------------------------------------
(* Populate and the uniqueness of Field names *)

UniqueNames(fields) ==
    \A i, j \in DOMAIN fields : fields[i].Name = fields[j].Name => i = j
AllUnique(doc) == \A st \in DOMAIN doc.Structs : UniqueNames(doc.Structs[st].Fields)

\* C11: Populate keeps Field names unique: when no two Fields of any Struct
\* of the Document shared a Name before a successful Populate, no two Fields
\* of any Struct share a Name after it, whatever the member list of the
\* compiled structure (a list that repeats a member name included).
C11_FieldNamesUnique ==
    (op = "Populate" /\ perr = "nil" /\ AllUnique(prev)) => AllUnique(m)

---------------------------------------------------------------------------
(* Populate followed by Validate *)

NoTracersNoStructs(doc) == DOMAIN doc.Tracers = {} /\ DOMAIN doc.Structs = {}

\* C12: Populate produces a Document that passes Validate: when Populate
\* has succeeded on a Document that had no Tracers and no Structs, a
\* Validate of the resulting Document against the same compiled object
\* returns nil (it records no finding).
C12_PopulatedPassesValidate ==
    [][(/\ op = "Populate" /\ perr = "nil" /\ NoTracersNoStructs(prev)
        /\ op' = "Validate") => verrs' = {}]_vars

=============================================================================
